---- MODULE Spec2Model ----
(***************************************************************************)
(* The dice-notation interpreter of wakebot (src/src/rolls_v2.rs), the     *)
(* message handler with its stored actions and its count of "heh"          *)
(* (src/src/main.rs, src/src/aws.rs) and the playlist update task          *)
(* (src/src/main.rs, src/src/youtube.rs).                                  *)
(*                                                                         *)
(* Text is a sequence of one-character strings.  Offsets are 0-based byte  *)
(* offsets as in the Rust code; Slice(t, a, b) is &t[a..b].                *)
(***************************************************************************)
EXTENDS Integers, Sequences, FiniteSets

(***************************************************************************)
(* Bounds of the model.                                                    *)
(***************************************************************************)
\* largest dice count written in a generated two-sided dice term
MaxCount == 2
\* largest keep count written in a generated keep-selector
MaxKeep == 2

\* most playlist items the API answer holds in a run
MaxVideos == 6
\* last day of a run
MaxClock == 2

\* the most announcements followed
MaxSaid == 2

\* the most "!heh" messages handled at the same time
MaxHandlers == 2

\* rolls_v2.rs:16
MAX_QUANTITY == 1000

\* main.rs:24, as a day number
DEFAULT_TIMESTAMP == 0

(***************************************************************************)
(* Text helpers.                                                           *)
(***************************************************************************)
Digit == {"0", "1", "2", "3", "4", "5", "6", "7", "8", "9"}

IsDigit(c) == c \in Digit

SeqToSet(q) == {q[i] : i \in 1..Len(q)}

DigitVal(c) ==
    CASE c = "0" -> 0 [] c = "1" -> 1 [] c = "2" -> 2 [] c = "3" -> 3
      [] c = "4" -> 4 [] c = "5" -> 5 [] c = "6" -> 6 [] c = "7" -> 7
      [] c = "8" -> 8 [] c = "9" -> 9

DigitChar(n) == <<"0", "1", "2", "3", "4", "5", "6", "7", "8", "9">>[n + 1]

\* the character at 0-based offset i, "" past the end of the text
At(t, i) == IF i >= 0 /\ i < Len(t) THEN t[i + 1] ELSE ""

\* &t[a..b]
Slice(t, a, b) == SubSeq(t, a + 1, b)

\* &t[a..]
SliceFrom(t, a) == SubSeq(t, a + 1, Len(t))

RECURSIVE to_string(_)
\* u32::to_string: the decimal digits of n
to_string(n) ==
    IF n < 10 THEN <<DigitChar(n)>>
    ELSE to_string(n \div 10) \o <<DigitChar(n % 10)>>

RECURSIVE DigitsValue(_)
\* the number a digit text denotes (used for texts short enough not to overflow)
DigitsValue(s) ==
    IF Len(s) = 0 THEN 0
    ELSE 10 * DigitsValue(SubSeq(s, 1, Len(s) - 1)) + DigitVal(s[Len(s)])

RECURSIVE StripZeros(_)
StripZeros(s) ==
    IF Len(s) > 1 /\ s[1] = "0" THEN StripZeros(Tail(s)) ELSE s

RECURSIVE DigitsLess(_, _)
\* a < b for two digit texts of the same length
DigitsLess(a, b) ==
    IF Len(a) = 0 THEN FALSE
    ELSE IF a[1] # b[1] THEN DigitVal(a[1]) < DigitVal(b[1])
    ELSE DigitsLess(Tail(a), Tail(b))

\* the number the digit text s denotes is above the one max denotes
Exceeds(s, max) ==
    LET z == StripZeros(s) IN
    \/ Len(z) > Len(max)
    \/ Len(z) = Len(max) /\ DigitsLess(max, z)

\* usize::MAX on the 64-bit build, 18446744073709551615
UsizeMaxDigits ==
    <<"1", "8", "4", "4", "6", "7", "4", "4", "0", "7", "3", "7", "0", "9",
      "5", "5", "1", "6", "1", "5">>

\* i32::MAX, 2147483647
I32MaxDigits == <<"2", "1", "4", "7", "4", "8", "3", "6", "4", "7">>

\* str::parse::<usize> fails on the empty text and on a value above usize::MAX
ParseUsizeFails(s) == Len(s) = 0 \/ Exceeds(s, UsizeMaxDigits)

\* str::parse::<i32> of a digit text fails on the empty text and above i32::MAX
ParseI32Fails(s) == Len(s) = 0 \/ Exceeds(s, I32MaxDigits)

\* the value str::parse yields; a value of more than four digits is kept as
\* 10000, which every comparison of the code treats alike (> MAX_QUANTITY)
ParseNumber(s) ==
    LET z == StripZeros(s) IN
    IF Len(z) > 4 THEN 10000 ELSE DigitsValue(z)

RECURSIVE DigitRunEnd(_, _)
\* the offset after the longest run of digits starting at offset i
DigitRunEnd(t, i) ==
    IF IsDigit(At(t, i)) THEN DigitRunEnd(t, i + 1) ELSE i

RECURSIVE DigitRunStart(_, _)
\* the offset at which the run of digits ending just before offset q starts
DigitRunStart(t, q) ==
    IF q > 0 /\ IsDigit(At(t, q - 1)) THEN DigitRunStart(t, q - 1) ELSE q

\* str::find: the first offset at which pat occurs in t (Len(t) when it does not)
Find(t, pat) ==
    LET hits == {i \in 0..(Len(t) - Len(pat)) : Slice(t, i, i + Len(pat)) = pat}
    IN IF hits = {} THEN Len(t)
       ELSE CHOOSE i \in hits : \A j \in hits : i <= j

(***************************************************************************)
(* PAREN_REGEX (rolls_v2.rs:9): an opening parenthesis, one or more        *)
(* characters (greedy), a closing parenthesis.  The match is the leftmost  *)
(* opening parenthesis that has a closing one at least two characters      *)
(* later, and runs to the last closing parenthesis of the text.            *)
(***************************************************************************)
ParenOpens(t) ==
    {i \in 0..(Len(t) - 1) :
        At(t, i) = "(" /\ \E j \in (i + 2)..(Len(t) - 1) : At(t, j) = ")"}

ParenMatches(t) == ParenOpens(t) # {}

\* offset of the "(" of the match
ParenOpen(t) == CHOOSE i \in ParenOpens(t) : \A j \in ParenOpens(t) : i <= j

\* offset of the ")" of the match
ParenClose(t) ==
    CHOOSE j \in 0..(Len(t) - 1) :
        /\ At(t, j) = ")"
        /\ \A k \in 0..(Len(t) - 1) : At(t, k) = ")" => k <= j

(***************************************************************************)
(* ROLL_REGEX (rolls_v2.rs:12-13): optional count digits, "d", the sides   *)
(* digits, an optional keep-selector k, kh or kl with its digits, then any *)
(* number of suffix groups: optional space, an operator, optional space, a *)
(* number that is not followed by "d".  Matched leftmost, with             *)
(* backtracking in the order of the pattern.                               *)
(***************************************************************************)
Operator == {"+", "*", "/", "-"}

\* offsets of a "d" that is followed by a digit: where d(\d+) can match
RollDs(t) == {q \in 0..(Len(t) - 2) : At(t, q) = "d" /\ IsDigit(At(t, q + 1))}

\* a slip: a term is found only when its count is written
RollMatches_NeedsCount(t) == \E q \in RollDs(t) : IsDigit(At(t, q - 1))

RollMatches(t) == RollDs(t) # {}

\* offset of the "d" of the leftmost match
RollD(t) == CHOOSE q \in RollDs(t) : \A r \in RollDs(t) : q <= r

\* the keep-selector at offset e (tried in the order k, kh, kl, each needing a
\* digit after it), empty when the optional keep group matches nothing
KeepAt(t, e) ==
    IF At(t, e) # "k" THEN <<>>
    ELSE IF IsDigit(At(t, e + 1)) THEN <<"k">>
    ELSE IF At(t, e + 1) = "h" /\ IsDigit(At(t, e + 2)) THEN <<"k", "h">>
    ELSE IF At(t, e + 1) = "l" /\ IsDigit(At(t, e + 2)) THEN <<"k", "l">>
    ELSE <<>>

\* one number of the suffix at offset b: first digits not followed by ".", the
\* run shortened by one digit when "." or "d" follows it; else a decimal with
\* digits after its "."; the number is not followed by "d".
\* The offset after it, or b when it does not match.
SuffixNumberEnd(t, b) ==
    LET r == DigitRunEnd(t, b)
        s == DigitRunEnd(t, r + 1)
    IN  IF r > b /\ At(t, r) \notin {".", "d"} THEN r
        ELSE IF r > b + 1 THEN r - 1
        ELSE IF At(t, r) = "." /\ s > r + 1 /\ At(t, s) # "d" THEN s
        ELSE IF At(t, r) = "." /\ s > r + 2 THEN s - 1
        ELSE b

\* one repetition of the suffix group at offset p
\* The offset after it, or p when it does not match.
SuffixStepEnd(t, p) ==
    LET a == IF At(t, p) = " " THEN p + 1 ELSE p
        b == IF At(t, a + 1) = " " THEN a + 2 ELSE a + 1
        e == SuffixNumberEnd(t, b)
    IN  IF At(t, a) \in Operator /\ e > b THEN e ELSE p

RECURSIVE SuffixEnd(_, _)
\* the offset after the greedy repetition of the suffix group from offset p
SuffixEnd(t, p) ==
    LET e == SuffixStepEnd(t, p) IN IF e = p THEN p ELSE SuffixEnd(t, e)

\* the captures of the leftmost match of ROLL_REGEX in t, as offsets
RollCaptures(t) ==
    LET q  == RollD(t)
        p  == DigitRunStart(t, q)
        se == DigitRunEnd(t, q + 1)
        k  == KeepAt(t, se)
        ke == IF k = <<>> THEN se ELSE DigitRunEnd(t, se + Len(k))
    IN  [start      |-> p,                                  \* cap 0 and 1 start
         count      |-> Slice(t, p, q),                     \* cap 2
         sides      |-> Slice(t, q + 1, se),                \* cap 3
         keep       |-> k,                                  \* cap 5
         keep_count |-> Slice(t, se + Len(k), ke),          \* cap 6
         end        |-> ke,                                 \* cap 1 end
         suffix_end |-> SuffixEnd(t, ke)]                   \* cap 7 and 0 end

\* DICE_COMMAND_REGEX (rolls_v2.rs:14), is_match: somewhere in t a "!", then
\* optional digits, "d" and a digit
DiceCommandMatches(t) ==
    \E i \in 0..(Len(t) - 1) :
        /\ At(t, i) = "!"
        /\ At(t, DigitRunEnd(t, i + 1)) = "d"
        /\ IsDigit(At(t, DigitRunEnd(t, i + 1) + 1))

(***************************************************************************)
(* The infix evaluator the code delegates to (ShuntingParser::parse_str    *)
(* and MathContext::eval, called at rolls_v2.rs:222-223 and 230-231):      *)
(* numbers, the binary operators + - * /, unary minus, parentheses and     *)
(* spaces, with the usual precedence.  A value is an exact fraction n/d    *)
(* in lowest terms with d > 0; d = 0 stands for a non-finite float         *)
(* (division by zero).  Anything else is an error, which the callers       *)
(* unwrap.                                                                 *)
(***************************************************************************)
RECURSIVE Gcd(_, _)
Gcd(a, b) == IF b = 0 THEN a ELSE Gcd(b, a % b)

Abs(n) == IF n < 0 THEN -n ELSE n

NonFinite == [n |-> 1, d |-> 0]

Frac(n, d) ==
    IF d = 0 THEN NonFinite
    ELSE LET g == Gcd(Abs(n), Abs(d))
             sgn == IF d < 0 THEN -1 ELSE 1
         IN  [n |-> sgn * (n \div g), d |-> sgn * (d \div g)]

Apply(op, x, y) ==
    IF x.d = 0 \/ y.d = 0 THEN NonFinite
    ELSE CASE op = "+" -> Frac(x.n * y.d + y.n * x.d, x.d * y.d)
           [] op = "-" -> Frac(x.n * y.d - y.n * x.d, x.d * y.d)
           [] op = "*" -> Frac(x.n * y.n, x.d * y.d)
           [] op = "/" -> Frac(x.n * y.d, x.d * y.n)

RECURSIVE Pow10(_)
Pow10(k) == IF k = 0 THEN 1 ELSE 10 * Pow10(k - 1)

RECURSIVE Tokenize(_, _)
\* the tokens of t from offset i on
Tokenize(t, i) ==
    LET c == At(t, i)
        r == DigitRunEnd(t, i)
        s == IF At(t, r) = "." THEN DigitRunEnd(t, r + 1) ELSE r
    IN  IF i >= Len(t) THEN <<>>
        ELSE IF c = " " THEN Tokenize(t, i + 1)
        ELSE IF c \in Operator THEN <<[k |-> "op", v |-> c]>> \o Tokenize(t, i + 1)
        ELSE IF c \in {"(", ")"} THEN <<[k |-> c, v |-> c]>> \o Tokenize(t, i + 1)
        ELSE IF s > r + 1 \/ (r > i /\ s = r)
             THEN <<[k |-> "num",
                     v |-> IF s = r THEN Frac(DigitsValue(Slice(t, i, r)), 1)
                           ELSE Frac(DigitsValue(Slice(t, i, r)) * Pow10(s - r - 1)
                                       + DigitsValue(Slice(t, r + 1, s)),
                                     Pow10(s - r - 1))]>>
                  \o Tokenize(t, s)
        ELSE <<[k |-> "bad", v |-> c]>> \o Tokenize(t, i + 1)

Failed == [ok |-> FALSE, v |-> NonFinite, next |-> 0]

TokKind(toks, i) == IF i <= Len(toks) THEN toks[i].k ELSE "end"

TokIs(toks, i, ops) == TokKind(toks, i) = "op" /\ toks[i].v \in ops

RECURSIVE ParseExpr(_, _), ExprRest(_, _, _), ParseTerm(_, _), TermRest(_, _, _),
          ParseFactor(_, _)

\* expr := term { addop term }
ParseExpr(toks, i) ==
    LET l == ParseTerm(toks, i)
    IN  IF l.ok THEN ExprRest(toks, l.v, l.next) ELSE Failed

ExprRest(toks, acc, i) ==
    IF TokIs(toks, i, {"+", "-"})
    THEN LET r == ParseTerm(toks, i + 1)
         IN  IF r.ok THEN ExprRest(toks, Apply(toks[i].v, acc, r.v), r.next)
             ELSE Failed
    ELSE [ok |-> TRUE, v |-> acc, next |-> i]

\* term := factor { mulop factor }
ParseTerm(toks, i) ==
    LET l == ParseFactor(toks, i)
    IN  IF l.ok THEN TermRest(toks, l.v, l.next) ELSE Failed

TermRest(toks, acc, i) ==
    IF TokIs(toks, i, {"*", "/"})
    THEN LET r == ParseFactor(toks, i + 1)
         IN  IF r.ok THEN TermRest(toks, Apply(toks[i].v, acc, r.v), r.next)
             ELSE Failed
    ELSE [ok |-> TRUE, v |-> acc, next |-> i]

\* factor := number | ( expr ) | - factor
ParseFactor(toks, i) ==
    CASE TokKind(toks, i) = "num" -> [ok |-> TRUE, v |-> toks[i].v, next |-> i + 1]
      [] TokKind(toks, i) = "(" ->
            LET e == ParseExpr(toks, i + 1)
            IN  IF e.ok /\ TokKind(toks, e.next) = ")"
                THEN [ok |-> TRUE, v |-> e.v, next |-> e.next + 1]
                ELSE Failed
      [] TokIs(toks, i, {"-"}) ->
            LET f == ParseFactor(toks, i + 1)
            IN  IF f.ok
                THEN [ok |-> TRUE, v |-> Apply("-", Frac(0, 1), f.v), next |-> f.next]
                ELSE Failed
      [] OTHER -> Failed

\* parse_str followed by eval: [ok |-> TRUE, v |-> value] or an error
Eval(t) ==
    LET toks == Tokenize(t, 0)
        r == ParseExpr(toks, 1)
    IN  IF r.ok /\ r.next = Len(toks) + 1
        THEN [ok |-> TRUE, v |-> r.v]
        ELSE [ok |-> FALSE, v |-> NonFinite]

(***************************************************************************)
(* Commands.  A shape is a command text in which "T" marks the place of a  *)
(* dice term; the contents the handler receives are "!" followed by a      *)
(* filled shape.                                                           *)
(***************************************************************************)
KeepWords == {<<"k">>, <<"k", "h">>, <<"k", "l">>}

Counts == {<<>>} \cup {to_string(n) : n \in 0..MaxCount}

KeepSelectors ==
    {<<>>} \cup {k \o to_string(n) : k \in KeepWords, n \in 0..MaxKeep}

\* every two-sided dice term within the bounds
D2Terms == {c \o <<"d", "2">> \o k : c \in Counts, k \in KeepSelectors}

\* twenty-sided terms (critical flags), a 21-sided one, and oversized counts
D20Terms ==
    {<<"d", "2", "0">>,
     <<"2", "d", "2", "0">>,
     <<"2", "d", "2", "0", "k", "1">>,
     <<"2", "d", "2", "0", "k", "h", "1">>,
     <<"2", "d", "2", "0", "k", "l", "1">>,
     <<"1", "d", "2", "1">>}

OverTerms ==
    {<<"1", "0", "0", "1", "d", "6">>,
     <<"1", "0", "0", "1", "d", "2", "k", "h", "1">>,
     <<"1", "d", "0">>}

SingleTerms == D2Terms \cup D20Terms \cup OverTerms

\* the terms that fill the shapes of several terms
SlotTerms ==
    {<<"1", "d", "2">>,
     <<"2", "d", "2", "k", "h", "1">>,
     <<"1", "0", "0", "1", "d", "6">>}

Shapes ==
    {<<"T", "+", "2">>,
     <<"T", " ", "+", " ", "3">>,
     <<"T", "+", "T">>,
     <<"T", "+">>,
     <<"T", "*", "(", "T", "+", "2", ")">>,
     <<"T", "+", "(", "T", ")", "+", "T">>,
     <<"T", "+", "(", "T", ")", "+", "(", "T", ")">>,
     <<"T", "+", "(", "(", "T", ")", "*", "2", ")", "+", "T">>,
     <<"(", "T", "+", "2", ")", "*", "2">>}

RECURSIVE Fill(_, _)
\* the shape with its k-th "T" replaced by terms[k]
Fill(shape, terms) ==
    IF shape = <<>> THEN <<>>
    ELSE IF Head(shape) = "T" THEN Head(terms) \o Fill(Tail(shape), Tail(terms))
    ELSE <<Head(shape)>> \o Fill(Tail(shape), terms)

\* usize::MAX + 1, 18446744073709551616
UsizeOverDigits ==
    <<"1", "8", "4", "4", "6", "7", "4", "4", "0", "7", "3", "7", "0", "9",
      "5", "5", "1", "6", "1", "6">>

\* further command texts: the example of a spaced suffix, a "d" directly in
\* front of a term, a keep count above i32::MAX, sides above usize::MAX, counts
\* above usize::MAX
ExampleCommands ==
    {UsizeOverDigits \o <<"d", "2">>,
     UsizeOverDigits \o <<"d", "2", "k", "0">>} \cup
    {<<"1", "d", "4", " ", "+", " ", "3">>,
     <<"1", "d", "2", "+", "d", "d", "2">>,
     <<"1", "d", "2", "+", "(", "d", "2", ")">>,
     <<"1", "d", "2", "k", "2", "1", "4", "7", "4", "8", "3", "6", "4", "8">>,
     <<"1", "d", "1", "8", "4", "4", "6", "7", "4", "4", "0", "7", "3", "7", "0",
       "9", "5", "5", "1", "6", "1", "6">>}

Commands ==
    SingleTerms
      \cup {Fill(sh, ts) : sh \in Shapes, ts \in [1..3 -> SlotTerms]}
      \cup ExampleCommands

Contents == {<<"!">> \o c : c \in Commands}

\* main.rs:142-189: the uses of a stored action, "!action <name>"
ActionPrefix == <<"!", "a", "c", "t", "i", "o", "n", " ">>

HehName == <<"h", "e", "h">>

ActionNames == {<<"a">>, <<"b">>, HehName, <<"a", "!">>}

DeleteWord == <<"d", "e", "l", "e", "t", "e">>

\* main.rs:190-268: the words after "!action " of the messages that delete, add
\* or update an action
ActionRequests ==
    {DeleteWord \o <<" ">> \o HehName,
     DeleteWord \o <<" ", "a">>,
     DeleteWord \o <<" ", "b">>,
     DeleteWord \o <<" ">>,
     DeleteWord \o <<" ", "a", " ", "b">>,
     <<"b", " ", "!", "1", "d", "2">>,
     <<"a", " ", "!", "2", "d", "2", "k", "h", "1">>,
     <<"b", " ", "!", "1", "d", "2", " ", "+", " ", "3">>,
     HehName \o <<" ", "!", "1", "d", "2">>,
     <<"a", "!", " ", "!", "1", "d", "2">>,
     <<"b", " ", "1", "2">>}

ActionContents == {ActionPrefix \o n : n \in ActionNames \cup ActionRequests}

\* main.rs:229-236: a stored roll is a text DICE_COMMAND_REGEX matches
StoredRolls ==
    {<<"!", "1", "d", "2">>,
     <<"!", "2", "d", "2", "k", "h", "1">>,
     <<"!", "1", "d", "2", "+">>,
     <<"!", "1", "d", "0">>,
     <<"!", "1", "0", "0", "1", "d", "6">>}

\* aws.rs:46-56: the table without the item of the name
Remove(table, name) == [n \in DOMAIN table \ {name} |-> table[n]]

\* aws.rs:29-43, 101-108: the table with the item of the name put
Put(table, name, roll) ==
    [n \in DOMAIN table \cup {name} |-> IF n = name THEN roll ELSE table[n]]

\* the actions table: the action named "a" is stored, and the count of "!heh"
\* under the name "heh" once it was counted
ActionTables ==
    {[n \in {<<"a">>} |-> r] : r \in StoredRolls}
      \cup {Put([n \in {<<"a">>} |-> <<"!", "1", "d", "2">>], HehName, <<"3">>)}

\* main.rs:352: the message that counts a "heh"
HehContent == <<"!", "h", "e", "h">>

WakebotInit ==
    <<"!", "w", "a", "k", "e", "b", "o", "t", " ", "i", "n", "i", "t">>

WakebotReset ==
    <<"!", "w", "a", "k", "e", "b", "o", "t", " ", "r", "e", "s", "e", "t">>

DefaultActions == [n \in {<<"a">>} |-> <<"!", "1", "d", "2">>]

(***************************************************************************)
(* State.                                                                  *)
(***************************************************************************)
VARIABLES
    msg,        \* who wrote the message being handled, and in which channel
    heh,        \* the handlers of concurrent "!heh" messages: where each is
                \* in increment_hehs, and the count it read
    content,    \* msg.content of the message being handled
    pc,         \* the handler's position: "recv", "interp", "update", "done",
                \* "ignored"
    stack,      \* the activation records of interpret_rolls, innermost last
    ret,        \* the value the last finished call of interpret_rolls returned
    draws,      \* the number of gen_range calls made so far
    outcome,    \* how handling ended: "none", "not_dice", "reply_result",
                \* "reply_err", "reply_other", "no_reply", "panic"; with the
                \* number of replies sent, the final total and the lines of
                \* the rendered message
    actions,    \* the "actions" table (aws.rs): name -> roll
    upc,        \* the position of send_update_message: "recv", "poll",
                \* "sleep", "woke", "done"
    persist,    \* the saved "timestamp": <<>> or <<day>>
    playlist,   \* the publishedAt days of the playlist items, in API order
    said,       \* what was said in the channel, oldest first
    clock       \* the current day

handler_vars == <<msg, heh, content, pc, stack, ret, draws, outcome, actions>>

update_vars == <<upc, persist, playlist, said, clock>>

vars == <<handler_vars, update_vars>>

NoRet ==
    [kind |-> "none", converted_text |-> <<>>, rolls |-> <<>>,
     original_text |-> <<>>, org |-> <<>>]

\* how handling ended
Ended(kind, replies, total, message) ==
    [kind |-> kind, replies |-> replies, total |-> total, message |-> message]

NoOutcome == Ended("none", 0, [n |-> 1, d |-> 0], <<>>)

\* lines 76-81: a leading "!" is removed, RollStringResult::new(input).
\* org is a history field: for every character of converted_text, the offset in
\* the top-level command text it comes from.
NewFrame(input, input_offset, org) ==
    LET bang == At(input, 0) = "!"
        text == IF bang THEN SliceFrom(input, 1) ELSE input
    IN  [original_text  |-> text,
         converted_text |-> text,
         rolls          |-> <<>>,
         input_offset   |-> input_offset,
         at             |-> "paren",
         start          |-> 0,
         end            |-> 0,
         org            |-> IF bang THEN SliceFrom(org, 1) ELSE org]

Top == stack[Len(stack)]

SetTop(f) == [stack EXCEPT ![Len(stack)] = f]

Pop == SubSeq(stack, 1, Len(stack) - 1)

\* main.rs:30, 455: the channels the bot answers in
allowed_channels == {"outsiders", "test"}

Channels == {"outsiders", "elsewhere"}

\* the attributes of a message the handler reads (main.rs:136-140)
Messages ==
    {m \in [author_bot : BOOLEAN, channel_id : Channels,
            creator_message : BOOLEAN] : m.author_bot => ~m.creator_message}

\* a slip: the author is not looked at
Accepted_AnyAuthor == msg.channel_id \in allowed_channels

\* main.rs:137-140: the author is no bot and the channel is an allowed one
Accepted == ~msg.author_bot /\ msg.channel_id \in allowed_channels

\* no "!heh" message is being handled
HehOff == heh = <<>>

\* the update task does not run
UpdateOff ==
    /\ upc = "done"
    /\ persist = <<>>
    /\ playlist = <<>>
    /\ said = <<>>
    /\ clock = 0

Init ==
    /\ \/ content \in Contents /\ actions = DefaultActions
       \/ content \in ActionContents /\ actions \in ActionTables
    /\ msg \in Messages
    /\ HehOff
    /\ pc = "recv"
    /\ stack = <<>>
    /\ ret = NoRet
    /\ draws = 0
    /\ outcome = NoOutcome
    /\ UpdateOff

(***************************************************************************)
(* The pieces of one roll resolution (rolls_v2.rs:119-205).                *)
(***************************************************************************)
\* lines 119-124: the count, 1 when the capture does not parse
DiceCount(cap) ==
    IF ParseUsizeFails(cap.count) THEN 1 ELSE ParseNumber(cap.count)

\* lines 131-136
DiceMax(cap) == ParseNumber(cap.sides)

\* lines 147-152: the indices of the rolls ordered by value.  sort_unstable_by
\* leaves the order of equal values open: every order by value is possible.
SortedOrders(results) ==
    LET n == Len(results) IN
    {p \in [1..n -> 1..n] :
        /\ \A i, j \in 1..n : i # j => p[i] # p[j]
        /\ \A i, j \in 1..n : i < j => results[p[i]] <= results[p[j]]}

\* a slip: the keep count taken as the number to remove
NumberToRemove_KeepCount(len, count) == IF count > len THEN len ELSE count

\* lines 160-163
NumberToRemove(len, count) == IF len - count < 0 THEN 0 ELSE len - count

\* a slip: the order is not reversed for kl
RemovedIndices_NoReverse(ord, keep, number_to_remove) ==
    {ord[i] : i \in 1..number_to_remove}

\* lines 164-167: reversed for kl, then all but the first number_to_remove drained
RemovedIndices(ord, keep, number_to_remove) ==
    LET n == Len(ord)
        o == IF keep = <<"k", "l">> THEN [i \in 1..n |-> ord[n + 1 - i]] ELSE ord
    IN  {o[i] : i \in 1..number_to_remove}

\* lines 168-170
Negate(results, removed) ==
    [i \in 1..Len(results) |-> IF i \in removed THEN -results[i] ELSE results[i]]

\* a slip: the rolls stored in the sorted order
ApplyKeep_Sorted(results, ord, cap) ==
    IF cap.keep = <<>> THEN results
    ELSE LET n == Len(results)
             o == IF cap.keep = <<"k", "l">>
                  THEN [i \in 1..n |-> ord[n + 1 - i]] ELSE ord
             k == NumberToRemove(n, ParseNumber(cap.keep_count))
         IN  [i \in 1..n |-> IF i <= k THEN -results[o[i]] ELSE results[o[i]]]

\* lines 153-171: the rolls with the discarded ones negated
ApplyKeep(results, ord, cap) ==
    IF cap.keep = <<>> THEN results
    ELSE Negate(results,
                RemovedIndices(ord, cap.keep,
                    NumberToRemove(Len(results), ParseNumber(cap.keep_count))))

\* a slip: the flag looks at the face values, discarded ones included
HasCriticalSuccess_AnyFace(dice_max, results) ==
    dice_max = 20 /\ \E i \in 1..Len(results) : Abs(results[i]) = 20

\* line 172
HasCriticalSuccess(dice_max, results) ==
    dice_max = 20 /\ \E i \in 1..Len(results) : results[i] = 20

\* line 173
HasCriticalFailure(dice_max, results) ==
    dice_max = 20 /\ \E i \in 1..Len(results) : results[i] = 1

RECURSIVE RollTotal_AllFaces(_)
\* a slip: the discarded values are added too
RollTotal_AllFaces(results) ==
    IF Len(results) = 0 THEN 0
    ELSE RollTotal_AllFaces(SubSeq(results, 1, Len(results) - 1))
           + Abs(results[Len(results)])

RECURSIVE RollTotal(_)
\* lines 174-180
RollTotal(results) ==
    IF Len(results) = 0 THEN 0
    ELSE RollTotal(SubSeq(results, 1, Len(results) - 1))
           + (IF results[Len(results)] >= 0 THEN results[Len(results)] ELSE 0)

\* lines 188-192
SortingPriority(text, cap, input_offset) ==
    Find(text, Slice(text, cap.start, cap.suffix_end)) + input_offset

\* a slip: the suffix replaced together with the term
RollSubstitute_WithSuffix(text, cap, roll_total) ==
    Slice(text, 0, cap.start) \o to_string(roll_total)
      \o SliceFrom(text, cap.suffix_end)

\* lines 203-205
RollSubstitute(text, cap, roll_total) ==
    Slice(text, 0, cap.start) \o to_string(roll_total) \o SliceFrom(text, cap.end)

\* lines 181-202: the RollResult pushed.  pos and faces are history fields: the
\* offset of the term in the top-level command text, and the values as
\* gen_range gave them (lines 137-144).
NewRollResult(f, cap, results, rolled) ==
    [original_text        |-> Slice(f.converted_text, cap.start, cap.end),
     non_roll_portion     |-> Slice(f.converted_text, cap.end, cap.suffix_end),
     rolls                |-> results,
     roll_total           |-> RollTotal(results),
     has_critical_success |-> HasCriticalSuccess(DiceMax(cap), results),
     has_critical_failure |-> HasCriticalFailure(DiceMax(cap), results),
     sorting_priority     |-> SortingPriority(f.converted_text, cap, f.input_offset),
     pos                  |-> f.org[cap.start + 1],
     faces                |-> rolled]

\* the frame after one iteration of the roll loop that rolled `rolled`
RollResolved(f, cap, rolled, ord) ==
    LET results == ApplyKeep(rolled, ord, cap)
        total   == RollTotal(results)
    IN  [f EXCEPT
           !.rolls = Append(@, NewRollResult(f, cap, results, rolled)),
           !.converted_text = RollSubstitute(@, cap, total),
           !.org = Slice(@, 0, cap.start)
                     \o [i \in 1..Len(to_string(total)) |-> f.org[cap.start + 1]]
                     \o SliceFrom(@, cap.end)]

RECURSIVE InsertRoll(_, _)
\* r put after the last entry of the sorted list whose priority is not larger
InsertRoll(sorted, r) ==
    IF Len(sorted) = 0 THEN <<r>>
    ELSE IF sorted[Len(sorted)].sorting_priority <= r.sorting_priority
         THEN Append(sorted, r)
         ELSE Append(InsertRoll(SubSeq(sorted, 1, Len(sorted) - 1), r),
                     sorted[Len(sorted)])

RECURSIVE SortRolls(_)
\* lines 214-216: sort_by (stable) on sorting_priority
SortRolls(rolls) ==
    IF Len(rolls) = 0 THEN <<>>
    ELSE InsertRoll(SortRolls(SubSeq(rolls, 1, Len(rolls) - 1)), rolls[Len(rolls)])

\* a slip: the parentheses of the span left in the text
ParenSubstitute_KeepsParens(text, start, end, text_result) ==
    Slice(text, 0, start) \o text_result \o SliceFrom(text, end)

\* lines 108-110
ParenSubstitute(text, start, end, text_result) ==
    Slice(text, 0, start - 1) \o text_result \o SliceFrom(text, end + 1)

(***************************************************************************)
(* format_rolls_result_new (rolls_v2.rs:221-267): the two evaluations it   *)
(* unwraps.                                                                *)
(***************************************************************************)
\* a slip: the per-term text without the suffix
TermText_NoSuffix(r) == to_string(r.roll_total)

\* lines 229-231: the per-term text, roll_total followed by the suffix
TermText(r) == to_string(r.roll_total) \o r.non_roll_portion

\* lines 222-223, 230-231: some unwrap of a parse or evaluation fails
FormatPanics(result) ==
    \/ ~Eval(result.converted_text).ok
    \/ \E i \in 1..Len(result.rolls) : ~Eval(TermText(result.rolls[i])).ok

\* lines 222-223: full_result
FullResult(result) == Eval(result.converted_text).v

RECURSIVE Escape(_)
\* lines 226, 257: replace("*", r"\*")
Escape(t) ==
    IF t = <<>> THEN <<>>
    ELSE (IF Head(t) = "*" THEN <<"\\", "*">> ELSE <<Head(t)>>) \o Escape(Tail(t))

\* lines 235-244: the rolls as shown; a negative one is struck through with its
\* face value
ShownRolls(r) ==
    [i \in 1..Len(r.rolls) |->
        [face |-> Abs(r.rolls[i]), struck |-> r.rolls[i] < 0]]

\* lines 227-255: the line of one RollResult,
\* "original_text (rolls -> roll_total)non_roll_portion = result" and the flags
TermLine(r) ==
    [kind |-> "term",
     text |-> r.original_text,
     shown |-> ShownRolls(r),
     roll_total |-> r.roll_total,
     non_roll_portion |-> r.non_roll_portion,
     result |-> Eval(TermText(r)).v,
     critical_success |-> r.has_critical_success,
     critical_failure |-> r.has_critical_failure]

\* line 226: the first line
OriginalLine(result) ==
    [kind |-> "original", text |-> Escape(result.original_text)]

\* a slip: the flattened text shown whatever the number of rolls
FlattenedLines_Always(result) ==
    <<[kind |-> "flattened", text |-> Escape(result.converted_text)]>>

\* lines 256-260: the flattened text, a line of its own with more than one roll
FlattenedLines(result) ==
    IF Len(result.rolls) > 1
    THEN <<[kind |-> "flattened", text |-> Escape(result.converted_text)]>>
    ELSE <<>>

\* line 261: the last line, the total in bold
TotalLine(result) == [kind |-> "total", result |-> FullResult(result)]

\* lines 224-266: the lines of the message, in the order of the format string
format_rolls_result_new(result) ==
    <<OriginalLine(result)>>
      \o [i \in 1..Len(result.rolls) |-> TermLine(result.rolls[i])]
      \o FlattenedLines(result)
      \o <<TotalLine(result)>>

(***************************************************************************)
(* The "!action " branch of the handler (main.rs:142-189).                 *)
(***************************************************************************)
StartsWith(t, prefix) ==
    Len(t) >= Len(prefix) /\ Slice(t, 0, Len(prefix)) = prefix

RECURSIVE Split(_, _)
\* main.rs:143: content.split(" ")
Split(t, cur) ==
    IF t = <<>> THEN <<cur>>
    ELSE IF Head(t) = " " THEN <<cur>> \o Split(Tail(t), <<>>)
    ELSE Split(Tail(t), Append(cur, Head(t)))

Args(t) == Split(t, <<>>)

Letter ==
    {"a", "b", "c", "d", "e", "f", "g", "h", "i", "j", "k", "l", "m",
     "n", "o", "p", "q", "r", "s", "t", "u", "v", "w", "x", "y", "z",
     "A", "B", "C", "D", "E", "F", "G", "H", "I", "J", "K", "L", "M",
     "N", "O", "P", "Q", "R", "S", "T", "U", "V", "W", "X", "Y", "Z"}

\* main.rs:154-155: valid_action_regex
ValidActionName(name) ==
    /\ Len(name) > 0
    /\ \A i \in 1..Len(name) : name[i] \in Letter \cup Digit \cup {"_", "-"}

IsActionCommand(t) == StartsWith(t, ActionPrefix)

(***************************************************************************)
(* Actions.                                                                *)
(***************************************************************************)
Panic ==
    /\ pc' = "done"
    /\ stack' = <<>>
    /\ ret' = NoRet
    /\ outcome' = Ended("panic", 0, NonFinite, <<>>)

Running == pc = "interp" /\ stack # <<>>

\* main.rs:135-141, 271-293: a message whose content matches DICE_COMMAND_REGEX
\* is a dice command; interpret_rolls(&content[1..commands_start], 0) is called.
\* The contents of the model carry no trailing " --word" options, so
\* commands_start is content.len().
\* main.rs:137-140: a message of a bot, or in a channel that is not allowed:
\* the handler returns, nothing is done
Ignore ==
    /\ pc = "recv"
    /\ ~Accepted
    /\ pc' = "ignored"
    /\ UNCHANGED <<msg, heh, content, stack, ret, draws, outcome, actions,
                   update_vars>>

\* main.rs:271-330: a dice command or an expression.  These branches send
\* nothing for "!heh" and the "!wakebot" commands, which are handled further
\* down.
Message ==
    /\ pc = "recv"
    /\ Accepted
    /\ ~IsActionCommand(content)
    /\ content \notin {HehContent, WakebotInit, WakebotReset}
    /\ IF DiceCommandMatches(content)
       THEN /\ pc' = "interp"
            /\ stack' = <<NewFrame(SliceFrom(content, 1), 0,
                                   [i \in 1..(Len(content) - 1) |-> i - 1])>>
            /\ outcome' = outcome
       ELSE /\ pc' = "done"
            /\ stack' = stack
            /\ outcome' = Ended("not_dice", 0, NonFinite, <<>>)
    /\ UNCHANGED <<msg, heh, content, ret, draws, actions, update_vars>>

RECURSIVE Join(_)
\* main.rs:229: args[2..].join(" ")
Join(words) ==
    IF Len(words) <= 1 THEN (IF words = <<>> THEN <<>> ELSE words[1])
    ELSE words[1] \o <<" ">> \o Join(Tail(words))

\* main.rs:142-268: "!action ...".  The name "heh" and a name that is not of
\* letters, digits, "_" and "-" are refused with a reply.  With two words,
\* "!action <name>": a name the table does not hold, or a failing request to
\* the table, is answered with a reply; otherwise interpret_rolls(&roll, 0) is
\* called on the stored roll.  With the name "delete" (190-227): more than
\* three words are refused; the item named by the third word is deleted if
\* get_action_roll found it.  Otherwise (228-268): the words after the name,
\* joined, are stored under the name if DICE_COMMAND_REGEX matches them.  Every
\* path of the last two branches ends with one reply.
ActionCommand ==
    /\ pc = "recv"
    /\ Accepted
    /\ IsActionCommand(content)
    /\ LET args == Args(content)
           action_name == args[2]
           Replied(table) ==
               /\ pc' = "done"
               /\ stack' = stack
               /\ outcome' = Ended("reply_other", 1, NonFinite, <<>>)
               /\ actions' = table
       IN  \E get_ok \in BOOLEAN, write_ok \in BOOLEAN :
             IF action_name = HehName \/ ~ValidActionName(action_name)
             THEN Replied(actions)
             ELSE IF Len(args) = 2
             THEN IF action_name \in DOMAIN actions /\ get_ok
                  THEN /\ pc' = "interp"
                       /\ stack' = <<NewFrame(actions[action_name], 0,
                                       [i \in 1..Len(actions[action_name]) |-> i - 2])>>
                       /\ outcome' = outcome
                       /\ actions' = actions
                  ELSE Replied(actions)
             ELSE IF action_name = DeleteWord
             THEN IF Len(args) > 3 THEN Replied(actions)
                  ELSE IF args[3] \in DOMAIN actions /\ get_ok /\ write_ok
                  THEN Replied(Remove(actions, args[3]))
                  ELSE Replied(actions)
             ELSE LET roll_input == Join(SubSeq(args, 3, Len(args)))
                  IN  IF DiceCommandMatches(roll_input) /\ write_ok
                      THEN Replied(Put(actions, action_name, roll_input))
                      ELSE Replied(actions)
    /\ UNCHANGED <<msg, heh, content, ret, draws, update_vars>>

\* rolls_v2.rs:88-97: the paren regex matches; interpret_rolls is called on the
\* text between the parentheses with input_offset = start
ParenCall ==
    /\ Running
    /\ Top.at = "paren"
    /\ ParenMatches(Top.converted_text)
    /\ LET start == ParenOpen(Top.converted_text) + 1
           end   == ParenClose(Top.converted_text)
       IN  stack' = Append(SetTop([Top EXCEPT !.at = "call",
                                              !.start = start,
                                              !.end = end]),
                           NewFrame(Slice(Top.converted_text, start, end), start,
                                    Slice(Top.org, start, end)))
    /\ UNCHANGED <<msg, heh, content, pc, ret, draws, outcome, actions, update_vars>>

\* rolls_v2.rs:97-110: the nested call returned; its result is unwrapped, its
\* rolls appended and its text put in place of the parenthesized span
ParenReturn ==
    /\ Running
    /\ Top.at = "call"
    /\ ret.kind # "none"
    /\ IF ret.kind = "err"
       THEN Panic
       ELSE /\ stack' = SetTop([Top EXCEPT
                   !.at = "paren",
                   !.rolls = @ \o ret.rolls,
                   !.converted_text =
                       ParenSubstitute(@, Top.start, Top.end, ret.converted_text),
                   !.org = ParenSubstitute(@, Top.start, Top.end, ret.org)])
            /\ ret' = NoRet
            /\ UNCHANGED <<pc, outcome>>
    /\ UNCHANGED <<msg, heh, content, draws, actions, update_vars>>

\* rolls_v2.rs:101: no parenthesized span is left
ParenBreak ==
    /\ Running
    /\ Top.at = "paren"
    /\ ~ParenMatches(Top.converted_text)
    /\ stack' = SetTop([Top EXCEPT !.at = "roll"])
    /\ UNCHANGED <<msg, heh, content, pc, ret, draws, outcome, actions, update_vars>>

AtRoll == Running /\ Top.at = "roll" /\ RollMatches(Top.converted_text)

\* rolls_v2.rs:131-158: what makes the iteration abort: the sides do not parse,
\* gen_range(1..=0) has an empty range, the keep count does not parse
RollAborts(cap) ==
    \/ ParseUsizeFails(cap.sides)
    \/ DiceCount(cap) > 0 /\ DiceMax(cap) = 0
    \/ cap.keep # <<>> /\ ParseI32Fails(cap.keep_count)

\* rolls_v2.rs:125-130: the count is above MAX_QUANTITY, Err is returned
RollReject ==
    /\ AtRoll
    /\ DiceCount(RollCaptures(Top.converted_text)) > MAX_QUANTITY
    /\ stack' = Pop
    /\ ret' = [kind |-> "err", converted_text |-> <<>>, rolls |-> <<>>,
               original_text |-> Top.original_text, org |-> <<>>]
    /\ UNCHANGED <<msg, heh, content, pc, draws, outcome, actions, update_vars>>

\* rolls_v2.rs:131-158: an expect or gen_range aborts
RollPanic ==
    /\ AtRoll
    /\ LET cap == RollCaptures(Top.converted_text)
       IN  /\ DiceCount(cap) <= MAX_QUANTITY
           /\ RollAborts(cap)
           /\ draws' = IF ParseUsizeFails(cap.sides) \/ DiceMax(cap) = 0
                       THEN draws ELSE draws + DiceCount(cap)
    /\ Panic
    /\ UNCHANGED <<msg, heh, content, actions, update_vars>>

\* rolls_v2.rs:117-205: one dice term is rolled and replaced by its kept total
Roll ==
    /\ AtRoll
    /\ LET cap == RollCaptures(Top.converted_text)
       IN  /\ DiceCount(cap) <= MAX_QUANTITY
           /\ ~RollAborts(cap)
           /\ \E rolled \in [1..DiceCount(cap) -> 1..DiceMax(cap)] :
                \E ord \in SortedOrders(rolled) :
                    stack' = SetTop(RollResolved(Top, cap, rolled, ord))
           /\ draws' = draws + DiceCount(cap)
    /\ UNCHANGED <<msg, heh, content, pc, ret, outcome, actions, update_vars>>

\* rolls_v2.rs:209-218: no dice term is left; the rolls are sorted, Ok returned
RollBreak ==
    /\ Running
    /\ Top.at = "roll"
    /\ ~RollMatches(Top.converted_text)
    /\ stack' = Pop
    /\ ret' = [kind |-> "ok", converted_text |-> Top.converted_text,
               rolls |-> SortRolls(Top.rolls),
               original_text |-> Top.original_text, org |-> Top.org]
    /\ UNCHANGED <<msg, heh, content, pc, draws, outcome, actions, update_vars>>

\* main.rs:293-311: the call made for a dice command returned; Err becomes an
\* "Err: ..." text, Ok is rendered by format_rolls_result_new, and the text is
\* sent (as a reply, or as a direct message with --private)
Respond ==
    /\ pc = "interp"
    /\ ~IsActionCommand(content)
    /\ stack = <<>>
    /\ ret.kind # "none"
    /\ pc' = "done"
    /\ outcome' =
         IF ret.kind = "err"
         THEN Ended("reply_err", 1, NonFinite, <<[kind |-> "err"]>>)
         ELSE IF FormatPanics(ret) THEN Ended("panic", 0, NonFinite, <<>>)
         ELSE Ended("reply_result", 1, FullResult(ret),
                    format_rolls_result_new(ret))
    /\ UNCHANGED <<msg, heh, content, stack, ret, draws, actions, update_vars>>

\* main.rs:183-189: the call made for a stored action returned; Ok is rendered
\* and replied, for Err there is no branch.  The rest of the handler sends
\* nothing for a content that starts with "!action ".
ActionRespond ==
    /\ pc = "interp"
    /\ IsActionCommand(content)
    /\ stack = <<>>
    /\ ret.kind # "none"
    /\ pc' = "done"
    /\ outcome' =
         IF ret.kind = "err" THEN Ended("no_reply", 0, NonFinite, <<>>)
         ELSE IF FormatPanics(ret) THEN Ended("panic", 0, NonFinite, <<>>)
         ELSE Ended("reply_result", 1, FullResult(ret),
                    format_rolls_result_new(ret))
    /\ UNCHANGED <<msg, heh, content, stack, ret, draws, actions, update_vars>>

Next ==
    \/ Ignore
    \/ Message
    \/ ActionCommand
    \/ ParenCall
    \/ ParenReturn
    \/ ParenBreak
    \/ RollReject
    \/ RollPanic
    \/ Roll
    \/ RollBreak
    \/ Respond
    \/ ActionRespond

Spec == Init /\ [][Next]_vars

(***************************************************************************)
(* The playlist update task: "!wakebot init" and "!wakebot reset" of the   *)
(* creator (main.rs:381-394), send_update_message (main.rs:51-130) and     *)
(* get_new_videos (youtube.rs:42-86).  Time is counted in days.            *)
(***************************************************************************)
\* youtube.rs:57-62: a publishedAt that DateTime::parse_from_rfc3339 refuses
NotATime == -1

\* a slip: of more than five, the first five
GetNewVideos_FirstFive(items, last_timestamp) ==
    LET list == SelectSeq(items, LAMBDA item :
                    item.publishedAt # NotATime /\ last_timestamp < item.publishedAt)
    IN  IF Len(list) > 5
        THEN [list |-> SubSeq(list, 1, 5), overflow |-> TRUE]
        ELSE [list |-> list, overflow |-> FALSE]

\* youtube.rs:54-85: the items whose publishedAt parses and is after
\* last_timestamp, in the order of the answer; of more than five, the last five
GetNewVideos(items, last_timestamp) ==
    LET list == SelectSeq(items, LAMBDA item :
                    item.publishedAt # NotATime /\ last_timestamp < item.publishedAt)
    IN  IF Len(list) > 5
        THEN [list |-> SubSeq(list, Len(list) - 4, Len(list)), overflow |-> TRUE]
        ELSE [list |-> list, overflow |-> FALSE]

\* a slip: retrieve() asks with the default timestamp whatever is saved
Retrieve_Default == GetNewVideos(playlist, DEFAULT_TIMESTAMP)

\* main.rs:34-48: retrieve() asks with the saved timestamp, or the default one
Retrieve ==
    GetNewVideos(playlist,
                 IF persist = <<>> THEN DEFAULT_TIMESTAMP ELSE persist[1])

\* main.rs:87-92: the timestamp of the last video of the sorted list
UpdatedTimestamp(list) ==
    LET stamps == {list[i].publishedAt : i \in 1..Len(list)}
    IN  CHOOSE t \in stamps : \A u \in stamps : u <= t

Said(kind, video_result) ==
    [kind |-> kind, list |-> video_result.list, overflow |-> video_result.overflow]

UpdateInit ==
    /\ content \in {WakebotInit, WakebotReset}
    /\ msg \in Messages
    /\ HehOff
    /\ pc = "recv"
    /\ stack = <<>>
    /\ ret = NoRet
    /\ draws = 0
    /\ outcome = NoOutcome
    /\ actions = DefaultActions
    /\ upc = "recv"
    /\ persist \in {<<>>, <<DEFAULT_TIMESTAMP>>}
    /\ playlist \in {<<>>, <<[id |-> 1, publishedAt |-> NotATime]>>}
    /\ said = <<>>
    /\ clock = 0

\* main.rs:381-383: the creator's "!wakebot init" calls send_update_message
InitCommand ==
    /\ pc = "recv"
    /\ Accepted
    /\ msg.creator_message
    /\ content = WakebotInit
    /\ pc' = "update"
    /\ upc' = "poll"
    /\ UNCHANGED <<msg, heh, content, stack, ret, draws, outcome, actions>>
    /\ UNCHANGED <<persist, playlist, said, clock>>

\* main.rs:384-392: the creator's "!wakebot reset" saves the default timestamp
ResetCommand ==
    /\ pc = "recv"
    /\ Accepted
    /\ msg.creator_message
    /\ content = WakebotReset
    /\ pc' = "done"
    /\ persist' = <<DEFAULT_TIMESTAMP>>
    /\ said' = Append(said, Said("reset", [list |-> <<>>, overflow |-> FALSE]))
    /\ UNCHANGED <<msg, heh, content, stack, ret, draws, outcome, actions>>
    /\ UNCHANGED <<upc, playlist, clock>>

\* main.rs:381: the author is not the creator; the handler ends
NotCreator ==
    /\ pc = "recv"
    /\ Accepted
    /\ ~msg.creator_message
    /\ content \in {WakebotInit, WakebotReset}
    /\ pc' = "done"
    /\ UNCHANGED <<msg, heh, content, stack, ret, draws, outcome, actions,
                   update_vars>>

\* main.rs:56-60: the request for the playlist fails
FetchFails ==
    /\ upc = "poll"
    /\ upc' = "done"
    /\ UNCHANGED <<handler_vars, persist, playlist, said, clock>>

\* main.rs:61-65: no timestamp is saved
NoTimestamp ==
    /\ upc = "poll"
    /\ persist = <<>>
    /\ upc' = "done"
    /\ UNCHANGED <<handler_vars, persist, playlist, said, clock>>

\* main.rs:68-86: no new video; this is said, the current time is saved and
\* send_update_message returns
AnnounceNone ==
    /\ upc = "poll"
    /\ persist # <<>>
    /\ Retrieve.list = <<>>
    /\ said' = Append(said, Said("none", Retrieve))
    /\ persist' = <<clock>>
    /\ upc' = "done"
    /\ UNCHANGED <<handler_vars, playlist, clock>>

\* main.rs:87-127: the new videos are said and the timestamp of the last one is
\* saved
AnnounceVideos ==
    /\ upc = "poll"
    /\ persist # <<>>
    /\ Retrieve.list # <<>>
    /\ said' = Append(said, Said("videos", Retrieve))
    /\ persist' = <<UpdatedTimestamp(Retrieve.list)>>
    /\ upc' = "sleep"
    /\ UNCHANGED <<handler_vars, playlist, clock>>

\* main.rs:128: tokio::time::sleep of one day
Sleep ==
    /\ upc = "sleep"
    /\ clock < MaxClock
    /\ clock' = clock + 1
    /\ upc' = "woke"
    /\ UNCHANGED <<handler_vars, persist, playlist, said>>

\* main.rs:129: let _ = self.send_update_message(ctx, triggering_msg): the
\* future is made and dropped, it is never polled; send_update_message returns
Recall ==
    /\ upc = "woke"
    /\ upc' = "done"
    /\ UNCHANGED <<handler_vars, persist, playlist, said, clock>>

\* main.rs:383: the await of send_update_message returns, the handler ends
UpdateReturn ==
    /\ pc = "update"
    /\ upc = "done"
    /\ pc' = "done"
    /\ UNCHANGED <<msg, heh, content, stack, ret, draws, outcome, actions, update_vars>>

\* the playlist and the clock are followed for the update commands, which
\* alone read them, and only once while one is handled (main.rs:56, 81): a
\* change made while a message is handled is taken as made before it came
Watching == content \in {WakebotInit, WakebotReset} /\ pc = "recv"

\* the answer lists the items newest first
NewestFirst(items) ==
    \A i \in 1..Len(items), j \in 1..Len(items) :
        i < j => items[i].id > items[j].id

\* the answer lists the items oldest first
OldestFirst(items) ==
    \A i \in 1..Len(items), j \in 1..Len(items) :
        i < j => items[i].id < items[j].id

\* the playlist's owner adds a video; the playlist is kept oldest first, or
\* newest first
Publish ==
    /\ Watching
    /\ Len(playlist) < MaxVideos
    /\ LET item == [id |-> Len(playlist) + 1, publishedAt |-> clock]
       IN  \/ OldestFirst(playlist) /\ playlist' = Append(playlist, item)
           \/ NewestFirst(playlist) /\ playlist' = <<item>> \o playlist
    /\ UNCHANGED <<handler_vars, upc, persist, said, clock>>

\* a day passes
Tick ==
    /\ Watching
    /\ clock < MaxClock
    /\ clock' = clock + 1
    /\ UNCHANGED <<handler_vars, upc, persist, playlist, said>>

\* the handler returned; the next "!wakebot" message arrives
NextCommand ==
    /\ content \in {WakebotInit, WakebotReset}
    /\ pc \in {"done", "ignored"}
    /\ Len(said) < MaxSaid
    /\ pc' = "recv"
    /\ upc' = "recv"
    /\ content' \in {WakebotInit, WakebotReset}
    /\ msg' \in Messages
    /\ UNCHANGED <<heh, stack, ret, draws, outcome, actions>>
    /\ UNCHANGED <<persist, playlist, said, clock>>

UpdateNext ==
    \/ Ignore
    \/ NotCreator
    \/ InitCommand
    \/ ResetCommand
    \/ FetchFails
    \/ NoTimestamp
    \/ AnnounceNone
    \/ AnnounceVideos
    \/ Sleep
    \/ Recall
    \/ UpdateReturn
    \/ Publish
    \/ Tick
    \/ NextCommand

SpecUpdate == UpdateInit /\ [][UpdateNext]_vars

(***************************************************************************)
(* "!heh" (main.rs:352-369, aws.rs:83-112): every message has its own      *)
(* handler; the handlers run concurrently and meet in the actions table.   *)
(***************************************************************************)
\* the actions table before the messages: no count yet, or a count
HehTables ==
    {DefaultActions,
     Put(DefaultActions, HehName, <<"0">>),
     Put(DefaultActions, HehName, <<"3">>)}

\* the count the table holds, 0 when there is no entry
HehCount(table) ==
    IF HehName \in DOMAIN table THEN ParseNumber(table[HehName]) ELSE 0

\* a handler that has not called increment_hehs yet.  before is a history
\* field: the count when the messages came.
HehStart(before) == [at |-> "recv", num |-> 0, before |-> before]

HehInit ==
    /\ content = HehContent
    /\ msg \in Messages
    /\ actions \in HehTables
    /\ heh \in {[h \in 1..n |-> HehStart(HehCount(actions))] : n \in 1..MaxHandlers}
    /\ pc = "recv"
    /\ stack = <<>>
    /\ ret = NoRet
    /\ draws = 0
    /\ outcome = NoOutcome
    /\ UpdateOff

\* aws.rs:84-100: get_item of "heh"; num is the roll read plus one, or 1 when
\* there is no item.  A failing request: main.rs:356-359 replies the failure.
HehGet(h) ==
    /\ pc = "recv"
    /\ Accepted
    /\ content = HehContent
    /\ heh[h].at = "recv"
    /\ \E get_ok \in BOOLEAN :
          heh' = [heh EXCEPT ![h] =
                    IF get_ok
                    THEN [@ EXCEPT !.at = "got", !.num = HehCount(actions) + 1]
                    ELSE [@ EXCEPT !.at = "failed"]]
    /\ UNCHANGED <<msg, content, pc, stack, ret, draws, outcome, actions,
                   update_vars>>

\* aws.rs:101-111: put_item of "heh" with num; main.rs:361-367 replies num.
\* A failing request: main.rs:356-359 replies the failure.
HehPut(h) ==
    /\ pc = "recv"
    /\ heh[h].at = "got"
    /\ \E put_ok \in BOOLEAN :
          IF put_ok
          THEN /\ actions' = Put(actions, HehName, to_string(heh[h].num))
               /\ heh' = [heh EXCEPT ![h].at = "replied"]
          ELSE /\ actions' = actions
               /\ heh' = [heh EXCEPT ![h].at = "failed"]
    /\ UNCHANGED <<msg, content, pc, stack, ret, draws, outcome, update_vars>>

\* main.rs:359, 368: every handler has returned
HehReturn ==
    /\ pc = "recv"
    /\ heh # <<>>
    /\ \A h \in 1..Len(heh) : heh[h].at \in {"replied", "failed"}
    /\ pc' = "done"
    /\ UNCHANGED <<msg, heh, content, stack, ret, draws, outcome, actions,
                   update_vars>>

HehNext ==
    \/ Ignore
    \/ \E h \in 1..Len(heh) : HehGet(h)
    \/ \E h \in 1..Len(heh) : HehPut(h)
    \/ HehReturn

SpecHeh == HehInit /\ [][HehNext]_vars

(***************************************************************************)
(* The handler with every kind of message the model has.                   *)
(***************************************************************************)
BotInit == Init \/ UpdateInit \/ HehInit

BotNext == Next \/ UpdateNext \/ HehNext

SpecBot == BotInit /\ [][BotNext]_vars

TypeOK ==
    /\ msg \in Messages
    /\ pc \in {"recv", "interp", "update", "done", "ignored"}
    /\ upc \in {"recv", "poll", "sleep", "woke", "done"}
    /\ clock \in 0..MaxClock
    /\ Len(playlist) <= MaxVideos
    /\ draws \in Nat
    /\ outcome.kind \in {"none", "not_dice", "reply_result", "reply_err",
                        "reply_other", "no_reply", "panic"}
    /\ outcome.replies \in 0..1
    /\ ret.kind \in {"none", "ok", "err"}

(***************************************************************************)
(* Vocabulary of the properties.                                           *)
(***************************************************************************)
\* every RollResult that exists: in an activation record or in a returned value
AllRolls ==
    UNION {SeqToSet(stack[i].rolls) : i \in 1..Len(stack)} \cup SeqToSet(ret.rolls)

\* the value interpret_rolls returned to the handler
Returned == stack = <<>> /\ pc \in {"interp", "done"} /\ ret.kind # "none"

ReturnedOk == Returned /\ ret.kind = "ok"

\* what the text of a dice term asks for
TermCount(term) ==
    LET c == RollCaptures(term).count
    IN  IF Len(c) = 0 THEN 1 ELSE ParseNumber(c)

TermSides(term) == ParseNumber(RollCaptures(term).sides)

TermKeep(term) == RollCaptures(term).keep

TermKeepCount(term) == ParseNumber(RollCaptures(term).keep_count)

Kept(r) == {i \in 1..Len(r.rolls) : r.rolls[i] >= 0}

Discarded(r) == {i \in 1..Len(r.rolls) : r.rolls[i] < 0}

RECURSIVE SumOver(_, _)
SumOver(f, idx) ==
    IF idx = {} THEN 0
    ELSE LET i == CHOOSE j \in idx : TRUE IN f[i] + SumOver(f, idx \ {i})

\* some dice term of the text has a count above MAX_QUANTITY
HasOversizedTerm(t) ==
    \E q \in RollDs(t) :
        LET c == Slice(t, DigitRunStart(t, q), q)
        IN  Len(c) > 0 /\ ParseNumber(c) > MAX_QUANTITY

RECURSIVE Depths(_, _)
\* the nesting depth after each prefix of t
Depths(t, d) ==
    IF t = <<>> THEN <<d>>
    ELSE <<d>> \o Depths(Tail(t),
                         IF Head(t) = "(" THEN d + 1
                         ELSE IF Head(t) = ")" THEN d - 1 ELSE d)

\* the parentheses of t are balanced
Balanced(t) ==
    LET ds == Depths(t, 0)
    IN  ds[Len(ds)] = 0 /\ \A i \in 1..Len(ds) : ds[i] >= 0

HasParen(t) == \E i \in 1..Len(t) : t[i] \in {"(", ")"}

RECURSIVE RefFrom(_, _, _)
\* the text from offset i on, each rolled dice term replaced by its kept total
RefFrom(text, rolls, i) ==
    IF i >= Len(text) THEN <<>>
    ELSE IF \E r \in rolls : r.pos = i
    THEN LET r == CHOOSE x \in rolls : x.pos = i
         IN  to_string(r.roll_total)
               \o RefFrom(text, rolls, i + Len(r.original_text))
    ELSE <<At(text, i)>> \o RefFrom(text, rolls, i + 1)

\* the command text with each dice term replaced by its kept total, the
\* parentheses left where they are
RefText(result) == RefFrom(result.original_text, SeqToSet(result.rolls), 0)

\* the ids of the videos of a list
Ids(list) == {list[i].id : i \in 1..Len(list)}

\* the announcements of videos said, by position
Announcements == {i \in 1..Len(said) : said[i].kind = "videos"}

\* "Bot reset" was said between two announcements
ResetBetween(i, j) == \E k \in i..j : said[k].kind = "reset"

\* this step is the handling of "!wakebot reset"
ResetStep == Len(said') > Len(said) /\ said'[Len(said')].kind = "reset"

\* the places of the playlist whose publish time is later than the timestamp
Qualifying(items, last_timestamp) ==
    {i \in 1..Len(items) :
        items[i].publishedAt # NotATime /\ items[i].publishedAt > last_timestamp}

\* the entry of the actions table that holds the count of "!heh"
HehEntry == [n \in DOMAIN actions \cap {HehName} |-> actions[n]]

\* the count written in a dice term, as text
TermCountText(term) == RollCaptures(term).count

RECURSIVE TermsAsOnes(_)
\* the text with every dice term replaced by "1"
TermsAsOnes(t) ==
    IF RollDs(t) = {} THEN t
    ELSE LET cap == RollCaptures(t)
         IN  Slice(t, 0, cap.start) \o <<"1">> \o TermsAsOnes(SliceFrom(t, cap.end))

\* a command of the accepted grammar: dice terms and numbers joined by the
\* four operators, with parentheses
GrammarValid(t) == Eval(TermsAsOnes(t)).ok

\* the number of dice terms of a text
NumTerms(t) == Cardinality(RollDs(t))

\* the number of parenthesis characters of a text
NumParens(t) == Cardinality({i \in 1..Len(t) : t[i] \in {"(", ")"}})

\* the deepest nesting of a text
MaxDepth(t) ==
    LET ds == Depths(t, 0)
    IN  CHOOSE d \in SeqToSet(ds) : \A e \in SeqToSet(ds) : e <= d

Last(q) == q[Len(q)]

\* a step of the roll loop that resolved a term: the innermost activation
\* record is in the roll loop and has one RollResult more after the step
RollStep ==
    /\ Running
    /\ Top.at = "roll"
    /\ Len(stack') = Len(stack)
    /\ Len(Last(stack').rolls) = Len(Top.rolls) + 1

\* a step of the paren loop that substituted a group
ParenStep ==
    /\ Running
    /\ Top.at = "call"
    /\ Len(stack') = Len(stack)
    /\ Last(stack').at = "paren"

\* the number of "d" characters of a text
NumDs(t) == Cardinality({i \in 1..Len(t) : t[i] = "d"})

\* handling is where some step is taken: a message to handle, a loop of
\* interpret_rolls to go on with, a returned call to take up
CanStep ==
    \/ pc = "recv"
    \/ Running /\ Top.at \in {"paren", "roll"}
    \/ Running /\ Top.at = "call" /\ ret.kind # "none"
    \/ pc = "interp" /\ stack = <<>> /\ ret.kind # "none"

\* the lines of a message of the given kind
LinesOf(message, kind) == {i \in 1..Len(message) : message[i].kind = kind}

(***************************************************************************)
(* Properties.                                                             *)
(***************************************************************************)

\* C1: the final total of a rendered reply is the value of the command text with
\* each dice term replaced by its kept total and the parentheses keeping their
\* grouping role.
C1_RoundTrip ==
    (pc = "done" /\ outcome.kind = "reply_result")
        => /\ Eval(RefText(ret)).ok
           /\ outcome.total = Eval(RefText(ret)).v

\* C2: the RollResult list interpret_rolls returns is in the order of the terms'
\* positions in the top-level command text.
C2_OrderedByPosition ==
    ReturnedOk =>
        \A i, j \in 1..Len(ret.rolls) : i < j => ret.rolls[i].pos < ret.rolls[j].pos

\* C3: a command with a dice term whose count is above 1000, at top level or in
\* a parenthesized group, ends with interpret_rolls returning Err (the handler
\* replies the error); it never aborts.
C3_OversizedReturnsErr ==
    (pc = "done" /\ DiceCommandMatches(content)
       /\ HasOversizedTerm(SliceFrom(content, 1)))
        => outcome.kind = "reply_err"

\* C4: when interpret_rolls rejects a command for an oversized count, no random
\* draw has been made.
C4_NoDrawBeforeReject ==
    (Returned /\ ret.kind = "err") => draws = 0

\* C5: has_critical_success holds iff the term has 20 sides and a kept value is
\* 20; has_critical_failure iff the term has 20 sides and a kept value is 1.
C5_CriticalFlags ==
    \A r \in AllRolls :
        /\ r.has_critical_success
             <=> (TermSides(r.original_text) = 20
                    /\ \E i \in Kept(r) : r.rolls[i] = 20)
        /\ r.has_critical_failure
             <=> (TermSides(r.original_text) = 20
                    /\ \E i \in Kept(r) : r.rolls[i] = 1)

\* 2d20kl1 rolled a 20 and a 1: the discarded 20 sets no flag, the kept 1 does
C5_Witness ==
    \E r \in AllRolls :
        /\ TermSides(r.original_text) = 20
        /\ \E i \in Discarded(r) : r.rolls[i] = -20
        /\ \E i \in Kept(r) : r.rolls[i] = 1
        /\ ~r.has_critical_success
        /\ r.has_critical_failure

\* C6: with k or kh every kept value is at least every discarded value; with kl
\* every kept value is at most every discarded value.
C6_KeepSelects ==
    \A r \in AllRolls :
        \A i \in Kept(r), j \in Discarded(r) :
            /\ TermKeep(r.original_text) \in {<<"k">>, <<"k", "h">>}
                 => r.rolls[i] >= -r.rolls[j]
            /\ TermKeep(r.original_text) = <<"k", "l">>
                 => r.rolls[i] <= -r.rolls[j]

\* 2d20kh1 rolled 5 and 17: 17 is kept, 5 discarded, the kept total is 17
C6_Witness ==
    \E r \in AllRolls :
        /\ r.original_text = <<"2", "d", "2", "0", "k", "h", "1">>
        /\ r.rolls = <<-5, 17>>
        /\ r.roll_total = 17

\* C7: the number of discarded values is max(0, count - keepCount) with a
\* keep-selector and 0 without one.
C7_DiscardCount ==
    \A r \in AllRolls :
        LET count == TermCount(r.original_text)
            keep  == TermKeepCount(r.original_text)
        IN  Cardinality(Discarded(r)) =
                IF TermKeep(r.original_text) = <<>> THEN 0
                ELSE IF count - keep > 0 THEN count - keep ELSE 0

\* a selector with keepCount 0 discarded both dice of its term
C7_Witness ==
    \E r \in AllRolls :
        /\ TermKeep(r.original_text) # <<>>
        /\ TermCount(r.original_text) = 2
        /\ TermKeepCount(r.original_text) = 0
        /\ Cardinality(Discarded(r)) = 2

\* C8: kept entries plus discarded entries are as many as the requested count,
\* and roll_total is the sum of the non-discarded values.
C8_CountAndTotal ==
    \A r \in AllRolls :
        /\ Cardinality(Kept(r)) + Cardinality(Discarded(r))
             = TermCount(r.original_text)
        /\ r.roll_total = SumOver(r.rolls, Kept(r))

\* two dice were rolled, one kept and one discarded
C8_Witness ==
    \E r \in AllRolls :
        /\ TermCount(r.original_text) = 2
        /\ Cardinality(Kept(r)) = 1
        /\ Cardinality(Discarded(r)) = 1
        /\ r.roll_total > 0

\* C9: when the paren loop has ended, the converted text of a command with
\* balanced parentheses holds no parenthesis.
C9_NoParenLeft ==
    \A i \in 1..Len(stack) :
        (stack[i].at = "roll" /\ Balanced(stack[i].original_text))
            => ~HasParen(stack[i].converted_text)

\* C10: when the flattened text does not evaluate, handling ends with a failure
\* message replied to the user, not with an abort.
C10_EvalFailureReplied ==
    (pc = "done" /\ ret.kind = "ok" /\ ~Eval(ret.converted_text).ok)
        => outcome.kind = "reply_err"

\* C11: for every content that passes the dice-command check, interpret_rolls
\* returns Ok or Err to the handler; it does not abort.
C11_ReturnsOkOrErr ==
    (pc = "done" /\ ~IsActionCommand(content) /\ DiceCommandMatches(content))
        => ret.kind \in {"ok", "err"}

\* C12: the message for "1d4 + 3" with a rolled 2 has exactly one per-term
\* line, which shows the subtotal 2, no flattened-text line, and the final
\* total 5.
C12_Example ==
    (/\ pc = "done"
     /\ content = <<"!", "1", "d", "4", " ", "+", " ", "3">>
     /\ outcome.kind = "reply_result"
     /\ ret.rolls[1].rolls = <<2>>)
        => LET m == outcome.message IN
           /\ Cardinality(LinesOf(m, "term")) = 1
           /\ \A i \in LinesOf(m, "term") : m[i].result = Frac(2, 1)
           /\ LinesOf(m, "flattened") = {}
           /\ Last(m).kind = "total"
           /\ Last(m).result = Frac(5, 1)

\* C12, amended: the message for "1d4 + 3" with a rolled 2 has exactly one
\* per-term line, which shows the roll 2, the suffix " + 3" and the subtotal 5,
\* no flattened-text line, and the final total 5.
C12_ExampleWithSuffix ==
    (/\ pc = "done"
     /\ content = <<"!", "1", "d", "4", " ", "+", " ", "3">>
     /\ outcome.kind = "reply_result"
     /\ ret.rolls[1].rolls = <<2>>)
        => LET m == outcome.message IN
           /\ Cardinality(LinesOf(m, "term")) = 1
           /\ \A i \in LinesOf(m, "term") :
                 /\ m[i].shown = <<[face |-> 2, struck |-> FALSE]>>
                 /\ m[i].non_roll_portion = <<" ", "+", " ", "3">>
                 /\ m[i].result = Frac(5, 1)
           /\ LinesOf(m, "flattened") = {}
           /\ Last(m).kind = "total"
           /\ Last(m).result = Frac(5, 1)

\* "1d4 + 3" rolled 2 and was replied
C12_Witness ==
    /\ pc = "done"
    /\ content = <<"!", "1", "d", "4", " ", "+", " ", "3">>
    /\ outcome.kind = "reply_result"
    /\ ret.rolls[1].rolls = <<2>>
    /\ Len(outcome.message) = 3

\* C13: the message for a result with n RollResults is the original-text line,
\* then n per-term lines in the order of the list, then the flattened-text
\* line iff n > 1, then the final-total line.
C13_MessageLayout ==
    (pc = "done" /\ outcome.kind = "reply_result")
        => LET m == outcome.message
               n == Len(ret.rolls)
           IN  /\ Len(m) = 1 + n + (IF n > 1 THEN 1 ELSE 0) + 1
               /\ m[1].kind = "original"
               /\ \A i \in 1..n :
                     /\ m[1 + i].kind = "term"
                     /\ m[1 + i].text = ret.rolls[i].original_text
                     /\ m[1 + i].roll_total = ret.rolls[i].roll_total
                     /\ m[1 + i].non_roll_portion = ret.rolls[i].non_roll_portion
               /\ n > 1 => /\ m[Len(m) - 1].kind = "flattened"
                           /\ m[Len(m) - 1].text = Escape(ret.converted_text)
               /\ Last(m).kind = "total"
               /\ Last(m).result = outcome.total

\* a reply for three RollResults: six lines, the flattened text the fifth
C13_Witness ==
    /\ pc = "done"
    /\ outcome.kind = "reply_result"
    /\ Len(ret.rolls) = 3
    /\ Len(outcome.message) = 6
    /\ outcome.message[5].kind = "flattened"

\* C14: when the interpretation made for a command (a dice command or the use
\* of a stored action) returned an error, exactly one reply has been sent when
\* handling ends.
C14_ErrorReplied ==
    (pc = "done" /\ ret.kind = "err") => outcome.replies = 1

\* C16: once new videos of the playlist were announced, the update task goes
\* on: it sleeps or polls again, it never ends.
C16_KeepsPolling ==
    (\E i \in 1..Len(said) : said[i].kind = "videos") => upc # "done"

C19_RollFrame ==
    [][RollStep =>
        LET old == Top.converted_text
            new == Last(stack').converted_text
            r == Last(Last(stack').rolls)
            digits == to_string(SumOver(r.rolls, Kept(r)))
            p == Find(old, r.original_text)
            q == p + Len(r.original_text)
            e == p + Len(digits) + Len(r.non_roll_portion)
        IN  /\ q <= Len(old)
            /\ new = Slice(old, 0, p) \o digits \o SliceFrom(old, q)
            /\ e <= Len(new)
            /\ Slice(new, p + Len(digits), e) = r.non_roll_portion
            /\ Len(Last(stack').rolls) = Len(Top.rolls) + 1]_vars

\* the term of "1d2+2" in a group was replaced by its roll 2; the suffix "+2"
\* is stored and still in the text
C19_Witness ==
    /\ Running
    /\ Top.at = "roll"
    /\ Top.converted_text = <<"2", "+", "2">>
    /\ Len(Top.rolls) = 1
    /\ Top.rolls[1].roll_total = 2
    /\ Top.rolls[1].non_roll_portion = <<"+", "2">>

\* C20: the suffix stored by a step of the roll loop ends where a number of
\* the text ends: the character after it is no digit (of a number cut in two,
\* or of the count of another dice term).
C20_SuffixWhole ==
    [][RollStep =>
        LET new == Last(stack').converted_text
            r == Last(Last(stack').rolls)
            p == Find(Top.converted_text, r.original_text)
            e == p + Len(to_string(r.roll_total)) + Len(r.non_roll_portion)
        IN  r.non_roll_portion # <<>> => ~IsDigit(At(new, e))]_vars

\* C21: as many dice are rolled for a term as its written count says, and one
\* when the count is omitted; a written count is never replaced by another
\* value.
C21_CountAsWritten ==
    \A r \in AllRolls :
        LET c == TermCountText(r.original_text)
        IN  IF c = <<>> THEN Len(r.rolls) = 1
            ELSE to_string(Len(r.rolls)) = StripZeros(c)

\* C22: the stored rolls are the rolled values in the order they were rolled,
\* each with its magnitude, which lies in 1..sides; a negative entry occurs
\* only with a keep-selector.
C22_OnlySigns ==
    \A r \in AllRolls :
        /\ Len(r.rolls) = Len(r.faces)
        /\ \A i \in 1..Len(r.rolls) :
              /\ Abs(r.rolls[i]) = r.faces[i]
              /\ r.faces[i] \in 1..TermSides(r.original_text)
              /\ r.rolls[i] < 0 => TermKeep(r.original_text) # <<>>

\* 2d20kh1 rolled 17 then 5: the 5 is negated where it stands
C22_Witness ==
    \E r \in AllRolls :
        /\ r.original_text = <<"2", "d", "2", "0", "k", "h", "1">>
        /\ r.faces = <<17, 5>>
        /\ r.rolls = <<17, -5>>

\* C23: when interpret_rolls returns Ok to the handler for a command of the
\* accepted grammar, the converted text holds no dice term and there are as
\* many RollResults as the command text has dice terms.
C23_EachTermOnce ==
    (ReturnedOk /\ GrammarValid(ret.original_text))
        => /\ RollDs(ret.converted_text) = {}
           /\ Len(ret.rolls) = NumTerms(ret.original_text)

\* "1d2+(1d2)+(1d2)" returned Ok with three RollResults
C23_Witness ==
    /\ ReturnedOk
    /\ ret.original_text = <<"1", "d", "2", "+", "(", "1", "d", "2", ")", "+",
                             "(", "1", "d", "2", ")">>
    /\ Len(ret.rolls) = 3

\* C25: no "!action" command creates, overwrites or deletes the entry named
\* "heh": no step of handling one changes it.
C25_HehEntryKept ==
    [][IsActionCommand(content) => HehEntry' = HehEntry]_vars

\* C27: while "!wakebot init" commands are handled one at a time, no step but
\* the handling of "!wakebot reset" moves the persisted timestamp backward, and
\* two announcements with no reset between them share no video.
C27_NoRepeats ==
    /\ [][(persist # <<>> /\ ~ResetStep)
             => (persist' # <<>> /\ persist'[1] >= persist[1])]_vars
    /\ [](\A i \in Announcements, j \in Announcements :
             (i < j /\ ~ResetBetween(i, j))
                 => Ids(said[i].list) \cap Ids(said[j].list) = {})

\* two announcements of videos, one after the other
C27_Witness ==
    /\ Len(said) = 2
    /\ Announcements = {1, 2}
    /\ persist = <<2>>

\* C28: get_new_videos returns only playlist items published strictly after
\* last_timestamp, at most five of them, with overflow exactly when more than
\* five qualify, and then the last five qualifying items in response order.
C28_LastFive ==
    \A last_timestamp \in DEFAULT_TIMESTAMP..MaxClock :
        LET r == GetNewVideos(playlist, last_timestamp)
            q == Qualifying(playlist, last_timestamp)
        IN  /\ \A k \in 1..Len(r.list) :
                  \E i \in q : r.list[k] = playlist[i]
            /\ Len(r.list) <= 5
            /\ r.overflow <=> Cardinality(q) > 5
            /\ r.overflow =>
                  \A k \in 1..5 :
                      \E i \in q :
                          /\ Cardinality({j \in q : j > i}) = 5 - k
                          /\ r.list[k] = playlist[i]

\* six items published after the default timestamp, and one before
C28_Witness ==
    /\ Len(playlist) = 6
    /\ Cardinality(Qualifying(playlist, DEFAULT_TIMESTAMP)) = 6
    /\ GetNewVideos(playlist, DEFAULT_TIMESTAMP).overflow
    /\ \E i \in Announcements : said[i].overflow

\* C24: when the handlers of the "!heh" messages have returned, the stored
\* count is higher than before by the number of messages that were answered
\* with a count, and no two of them were answered with the same count.
C24_EveryHehCounted ==
    LET counted == {h \in 1..Len(heh) : heh[h].at = "replied"}
    IN  /\ pc = "done" /\ heh # <<>>
            => HehCount(actions) = heh[1].before + Cardinality(counted)
        /\ \A h \in counted, g \in counted :
              h # g => heh[h].num # heh[g].num

\* C26: handling a message of a bot, or of a channel that is not allowed,
\* sends no reply or direct message and changes neither the action store nor
\* the persisted timestamp; handling "!wakebot init" or "!wakebot reset" of an
\* author who is not the creator says nothing and leaves the timestamp.
C26_Gate ==
    [][/\ (msg.author_bot \/ msg.channel_id \notin allowed_channels)
            => /\ outcome' = outcome
               /\ heh' = heh
               /\ said' = said
               /\ actions' = actions
               /\ persist' = persist
               /\ pc' \notin {"interp", "update", "done"}
       /\ (content \in {WakebotInit, WakebotReset} /\ ~msg.creator_message)
            => /\ said' = said
               /\ persist' = persist
               /\ pc' # "update"]_vars

\* a bot's "!wakebot reset" was ignored after videos had been announced
C26_Witness ==
    /\ pc = "ignored"
    /\ msg.author_bot
    /\ msg.channel_id \in allowed_channels
    /\ content = WakebotReset
    /\ Announcements # {}
    /\ persist # <<DEFAULT_TIMESTAMP>>

====
